---- MODULE Spec2Model ----
(***************************************************************************)
(* Model of the App component of src/App.tsx: the React state (text,       *)
(* isLoading, error, audioURL), the async handler handleGenerateSpeech     *)
(* (split at its single await), the textarea / button guards of the JSX,   *)
(* and the decode -> pcmToWavBlob -> createObjectURL pipeline.             *)
(*                                                                         *)
(* Strings are sequences of one-character strings; a nullable value is a   *)
(* sequence of length at most one (Null == <<>>, Some(x) == <<x>>).        *)
(* State updates made in one synchronous run of the handler are committed  *)
(* together (React batches them), so each synchronous run is one action.   *)
(***************************************************************************)
EXTENDS Integers, Sequences, FiniteSets, TLC

VARIABLES text, isLoading, error, audioURL,
          inflight, invocations, calls, completed,
          created, revoked, lastRun,
          wavIn, wavOut

vars == <<text, isLoading, error, audioURL, inflight, invocations, calls,
          completed, created, revoked, lastRun, wavIn, wavOut>>

uiVars == <<text, isLoading, error, audioURL, inflight, invocations, calls,
            completed, created, revoked, lastRun>>

\* ---------------------------------------------------------------- bounds
MaxTextLen == 2
MaxInvoke == 3
MaxPcmLen == 2

\* ------------------------------------------------------- nullable values
Null == <<>>
Some(x) == <<x>>

\* ---------------------------------------------------------------- strings
TextChars == {" ", "H"}

SeqsUpTo(S, n) == UNION {[1..k -> S] : k \in 0..n}

Texts == SeqsUpTo(TextChars, MaxTextLen)

InitialText == <<"H">>

IsSpace(c) == c = " "

RECURSIVE TrimStart(_)
TrimStart(s) ==
  IF s = <<>> THEN <<>>
  ELSE IF IsSpace(Head(s)) THEN TrimStart(Tail(s)) ELSE s

RECURSIVE TrimEnd(_)
TrimEnd(s) ==
  IF s = <<>> THEN <<>>
  ELSE IF IsSpace(s[Len(s)]) THEN TrimEnd(SubSeq(s, 1, Len(s) - 1)) ELSE s

\* variant: the blank check without trim, `!text`
TrimNone(s) == s

Trim(s) == TrimEnd(TrimStart(s))

\* variant: only a missing value counts as empty, `base64Audio == null`
TruthyNonNull(opt) == opt # Null

\* JavaScript truthiness of a string | null value
Truthy(opt) == opt # Null /\ opt[1] # <<>>

BlankTextMsg == <<"Please enter some text to generate speech.">>
FailedPrefix == "Failed to generate speech: "
EmptyAudioMsg == "Received empty audio data from the API."
UnknownErrorMsg == "An unknown error occurred."

\* ------------------------------------------------------ thrown values
\* A thrown value: an Error object with a message, or some other value.
ErrorObj(msg) == [isError |-> TRUE, message |-> msg]
NonErrorObj == [isError |-> FALSE, message |-> "thrown string"]

Ok(v) == [ok |-> TRUE, val |-> Some(v), err |-> Null]
Fail(e) == [ok |-> FALSE, val |-> Null, err |-> Some(e)]

\* ------------------------------------------------------ Base64 Decoder
B64Alphabet ==
  << "A","B","C","D","E","F","G","H","I","J","K","L","M","N","O","P",
     "Q","R","S","T","U","V","W","X","Y","Z","a","b","c","d","e","f",
     "g","h","i","j","k","l","m","n","o","p","q","r","s","t","u","v",
     "w","x","y","z","0","1","2","3","4","5","6","7","8","9","+","/" >>

B64Chars == {B64Alphabet[i] : i \in 1..64}

B64Value(c) == (CHOOSE i \in 1..64 : B64Alphabet[i] = c) - 1

\* number of trailing '=' characters, at most two are padding
PadCount(s) ==
  IF Len(s) >= 2 /\ s[Len(s)] = "=" /\ s[Len(s) - 1] = "=" THEN 2
  ELSE IF Len(s) >= 1 /\ s[Len(s)] = "=" THEN 1
  ELSE 0

B64Valid(s) ==
  LET p == PadCount(s)
      m == Len(s) - p
  IN /\ \A i \in 1..m : s[i] \in B64Chars
     /\ m % 4 # 1
     /\ p > 0 => (m + p) % 4 = 0

RECURSIVE DecodeGroups(_)
DecodeGroups(v) ==
  IF Len(v) >= 4 THEN
    LET n == v[1] * 262144 + v[2] * 4096 + v[3] * 64 + v[4]
    IN <<n \div 65536, (n \div 256) % 256, n % 256>>
         \o DecodeGroups(SubSeq(v, 5, Len(v)))
  ELSE IF Len(v) = 3 THEN
    LET n == v[1] * 262144 + v[2] * 4096 + v[3] * 64
    IN <<n \div 65536, (n \div 256) % 256>>
  ELSE IF Len(v) = 2 THEN
    LET n == v[1] * 262144 + v[2] * 4096
    IN <<n \div 65536>>
  ELSE <<>>

decode(base64) ==
  IF ~B64Valid(base64) THEN Fail(ErrorObj("DecodeError"))
  ELSE LET m == Len(base64) - PadCount(base64)
       IN Ok(DecodeGroups([i \in 1..m |-> B64Value(base64[i])]))

\* ---------------------------------------------------------- WAV Encoder
U16LE(n) == <<n % 256, (n \div 256) % 256>>
U32LE(n) ==
  <<n % 256, (n \div 256) % 256, (n \div 65536) % 256, (n \div 16777216) % 256>>

RIFF == <<82, 73, 70, 70>>
WAVE == <<87, 65, 86, 69>>
FMT_ == <<102, 109, 116, 32>>
DATA == <<100, 97, 116, 97>>

\* variant: header written without the final data-size field
WavHeaderNoDataSize(dataSize, sampleRate, numChannels, bitsPerSample) ==
  LET byteRate == sampleRate * numChannels * (bitsPerSample \div 8)
      blockAlign == numChannels * (bitsPerSample \div 8)
  IN RIFF \o U32LE(36 + dataSize) \o WAVE
       \o FMT_ \o U32LE(16) \o U16LE(1) \o U16LE(numChannels)
       \o U32LE(sampleRate) \o U32LE(byteRate) \o U16LE(blockAlign)
       \o U16LE(bitsPerSample)
       \o DATA

WavHeader(dataSize, sampleRate, numChannels, bitsPerSample) ==
  LET byteRate == sampleRate * numChannels * (bitsPerSample \div 8)
      blockAlign == numChannels * (bitsPerSample \div 8)
  IN RIFF \o U32LE(36 + dataSize) \o WAVE
       \o FMT_ \o U32LE(16) \o U16LE(1) \o U16LE(numChannels)
       \o U32LE(sampleRate) \o U32LE(byteRate) \o U16LE(blockAlign)
       \o U16LE(bitsPerSample)
       \o DATA \o U32LE(dataSize)

ValidFormat(sampleRate, numChannels, bitsPerSample) ==
  /\ sampleRate > 0
  /\ numChannels > 0
  /\ bitsPerSample > 0
  /\ bitsPerSample % 8 = 0

pcmToWavBlob(pcmData, sampleRate, numChannels, bitsPerSample) ==
  IF ~ValidFormat(sampleRate, numChannels, bitsPerSample)
  THEN Fail(ErrorObj("FormatError"))
  ELSE Ok(WavHeader(Len(pcmData), sampleRate, numChannels, bitsPerSample)
            \o pcmData)

\* Format the caller passes: 24kHz, 1-channel, 16-bit PCM
SampleRate == 24000
NumChannels == 1
BitsPerSample == 16

\* ------------------------------------------------- generateSpeech outcomes
Pending == [kind |-> "pending", value |-> Null, err |-> Null]
ResolveWith(v) == [kind |-> "resolve", value |-> v, err |-> Null]
RejectWith(e) == [kind |-> "reject", value |-> Null, err |-> Some(e)]

\* The settled promise of generateSpeech(text): a base64 string (valid,
\* with or without padding, or malformed), an empty string, a missing
\* value, or a rejection with an Error or with some other value.
ServiceResults ==
  { ResolveWith(Some(<<"A","Q","I","D","B","A","=","=">>)),
    ResolveWith(Some(<<"/","/","8">>)),
    ResolveWith(Some(<<"A","!">>)),
    ResolveWith(Some(<<>>)),
    ResolveWith(Null),
    RejectWith(ErrorObj("Network error")),
    RejectWith(NonErrorObj) }

\* ------------------------------------------------------ browser object URLs
createObjectURL(blob, urlOK, urlId) ==
  IF urlOK THEN Ok(urlId) ELSE Fail(ErrorObj("createObjectURL failed"))

\* variant: the previous URL is dropped without being revoked
RevokeNever(rev, url) == rev

\* URL.revokeObjectURL guarded by `if (audioURL)`
RevokeIfSet(rev, url) == IF url # Null THEN rev \cup {url[1]} ELSE rev

\* ------------------------------------------------------------ try block
Skipped == [ok |-> FALSE, val |-> Null, err |-> Null]

\* variant: statements run regardless of an earlier throw
ProceedAlways(r) == TRUE

\* A statement of the try block runs only if the previous one did not throw.
Proceed(r) == r.ok

Arg(r) == IF r.val # Null THEN r.val[1] ELSE <<>>

PipelineOrder ==
  <<"generateSpeech", "decode", "pcmToWavBlob", "createObjectURL", "setAudioURL">>

If(b, s) == IF b THEN <<s>> ELSE <<>>

FirstErr(rs) ==
  IF \E i \in 1..Len(rs) : rs[i].err # Null
  THEN Some(CHOOSE i \in 1..Len(rs) :
              rs[i].err # Null /\ \A j \in 1..(i - 1) : rs[j].err = Null)
  ELSE Null

\* The one element of a singleton set
Only(S) == CHOOSE x \in S : TRUE

\* Line 26-29: the value of the await, or what it throws
Awaited(res) ==
  IF res.kind = "reject" THEN Fail(res.err[1])
  ELSE IF ~Truthy(res.value) THEN Fail(ErrorObj(EmptyAudioMsg))
  ELSE Ok(res.value[1])

RunRecord(res, awaited, pcm, wav, url) ==
  LET steps == <<awaited, pcm, wav, url>>
  IN Only({ [ log |-> <<"generateSpeech">>
                        \o If(pcm # Skipped, "decode")
                        \o If(wav # Skipped, "pcmToWavBlob")
                        \o If(url # Skipped, "createObjectURL")
                        \o If(Proceed(url), "setAudioURL"),
              result |-> res,
              base64Audio |-> awaited.val,
              pcmData |-> pcm.val,
              wavBlob |-> wav.val,
              url |-> url.val,
              failedAt |-> IF first = Null THEN Null
                           ELSE Some(PipelineOrder[first[1]]),
              thrown |-> IF first = Null THEN Null ELSE steps[first[1]].err ]
            : first \in {FirstErr(steps)} })

\* Lines 26-35: await result, empty check, decode, encode, object URL.
\* Each statement's value is bound once and passed to the next.
RunTry(res, urlOK, urlId) ==
  Only({ Only({ Only({ Only({ RunRecord(res, awaited, pcm, wav, url)
    : url \in { IF Proceed(wav)
                THEN createObjectURL(Arg(wav), urlOK, urlId)
                ELSE Skipped } })
    : wav \in { IF Proceed(pcm)
                THEN pcmToWavBlob(Arg(pcm), SampleRate, NumChannels, BitsPerSample)
                ELSE Skipped } })
    : pcm \in { IF Proceed(awaited) THEN decode(Arg(awaited)) ELSE Skipped } })
    : awaited \in { Awaited(res) } })

NoRun ==
  [ log |-> <<>>, result |-> Pending, base64Audio |-> Null, pcmData |-> Null,
    wavBlob |-> Null, url |-> Null, failedAt |-> Null, thrown |-> Null ]

\* Lines 39-40: the message shown for a caught value
ErrorMessage(e) == IF e.isError THEN e.message ELSE UnknownErrorMsg

\* variant: the caught message shown without the prefix
FailedMsgBare(e) == <<ErrorMessage(e)>>

\* Line 40: `Failed to generate speech: ${errorMessage}`
FailedMsg(e) == <<FailedPrefix, ErrorMessage(e)>>

\* variant: setIsLoading(false) at the end of the try block, not in finally
LoadingAfterTryOnly(run) == run.thrown # Null

\* Lines 41-43: finally { setIsLoading(false) }
LoadingAfter(run) == FALSE

\* ---------------------------------------------------------------- guards
\* variant: disabled={!text.trim()}
ButtonDisabledNoLoading == Trim(text) = <<>>

\* variant: disabled={isLoading}
ButtonDisabledNoBlank == isLoading

\* disabled={isLoading || !text.trim()}
ButtonDisabled == isLoading \/ Trim(text) = <<>>

\* variant: the textarea is never disabled
TextareaNeverDisabled == FALSE

\* disabled={isLoading}
TextareaDisabled == isLoading

\* ------------------------------------------------------------------ Init
DefaultWavIn ==
  [ data |-> <<>>, sampleRate |-> SampleRate, numChannels |-> NumChannels,
    bitsPerSample |-> BitsPerSample ]

Init ==
  /\ text = InitialText
  /\ isLoading = FALSE
  /\ error = Null
  /\ audioURL = Null
  /\ inflight = {}
  /\ invocations = 0
  /\ calls = 0
  /\ completed = 0
  /\ created = {}
  /\ revoked = {}
  /\ lastRun = NoRun
  /\ wavIn = DefaultWavIn
  /\ wavOut = Null

\* --------------------------------------------------------------- actions
\* onChange={(e) => setText(e.target.value)}
SetText(t) ==
  /\ ~TextareaDisabled
  /\ t # text
  /\ text' = t
  /\ UNCHANGED <<isLoading, error, audioURL, inflight, invocations, calls,
                 completed, created, revoked, lastRun, wavIn, wavOut>>

\* Lines 13-26: the synchronous part of handleGenerateSpeech, up to the
\* await; the closure reads text and audioURL of the current render.
HandleGenerateSpeech ==
  /\ invocations < MaxInvoke
  /\ invocations' = invocations + 1
  /\ IF Trim(text) = <<>>
     THEN /\ error' = Some(BlankTextMsg)
          /\ UNCHANGED <<isLoading, audioURL, revoked, inflight, calls>>
     ELSE /\ isLoading' = TRUE
          /\ error' = Null
          /\ revoked' = RevokeIfSet(revoked, audioURL)
          /\ audioURL' = Null
          /\ calls' = calls + 1
          /\ inflight' = inflight \cup
               {[id |-> calls + 1, text |-> text, settled |-> FALSE,
                 result |-> Pending]}
  /\ UNCHANGED <<text, completed, created, lastRun, wavIn, wavOut>>

\* onClick of the Generate button
ClickGenerate ==
  /\ ~ButtonDisabled
  /\ HandleGenerateSpeech

\* handleGenerateSpeech called whatever the text is
InvokeHandler ==
  /\ ~isLoading
  /\ HandleGenerateSpeech

\* The promise returned by generateSpeech settles.
ServiceSettles(r, res) ==
  /\ r \in inflight
  /\ ~r.settled
  /\ inflight' = (inflight \ {r}) \cup {[r EXCEPT !.settled = TRUE, !.result = res]}
  /\ UNCHANGED <<text, isLoading, error, audioURL, invocations, calls,
                 completed, created, revoked, lastRun, wavIn, wavOut>>

\* Lines 26-43: the continuation after the await, through catch and finally.
Continue(r, urlOK) ==
  /\ r \in inflight
  /\ r.settled
  /\ \E run \in {RunTry(r.result, urlOK, Cardinality(created) + 1)} :
        /\ lastRun' = run
        /\ created' = IF run.url # Null THEN created \cup {run.url[1]} ELSE created
        /\ audioURL' = IF run.url # Null THEN run.url ELSE audioURL
        /\ error' = IF run.thrown # Null THEN Some(FailedMsg(run.thrown[1]))
                    ELSE error
        /\ isLoading' = LoadingAfter(run)
  /\ inflight' = inflight \ {r}
  /\ completed' = completed + 1
  /\ UNCHANGED <<text, invocations, calls, revoked, wavIn, wavOut>>

UserTypes == \E t \in Texts : SetText(t)
Settle == \E r \in inflight, res \in ServiceResults : ServiceSettles(r, res)
Resume == \E r \in inflight, urlOK \in BOOLEAN : Continue(r, urlOK)

Next == UserTypes \/ ClickGenerate \/ Settle \/ Resume

Spec == Init /\ [][Next]_vars

\* The continuation is a microtask of the event loop: once the promise has
\* settled it is run.
FairSpec == Spec /\ WF_vars(Resume)

\* The handler called directly, without the blank-text part of the button
\* guard; it is still not re-entered while a generation is loading.
NextHandler == UserTypes \/ InvokeHandler \/ Settle \/ Resume

SpecHandler == Init /\ [][NextHandler]_vars

\* ------------------------------------------------- WAV encoder on its own
PcmBytes == {0, 1, 255}
SampleRates == {0, 8000, 24000}
ChannelCounts == {-1, 1, 2}
BitDepths == {7, 8, 16}

InitWav ==
  /\ text = InitialText
  /\ isLoading = FALSE
  /\ error = Null
  /\ audioURL = Null
  /\ inflight = {}
  /\ invocations = 0
  /\ calls = 0
  /\ completed = 0
  /\ created = {}
  /\ revoked = {}
  /\ lastRun = NoRun
  /\ wavIn \in [ data : SeqsUpTo(PcmBytes, MaxPcmLen), sampleRate : SampleRates,
                 numChannels : ChannelCounts, bitsPerSample : BitDepths ]
  /\ wavOut = Null

EncodeWav ==
  /\ wavOut = Null
  /\ wavOut' = Some(pcmToWavBlob(wavIn.data, wavIn.sampleRate,
                                  wavIn.numChannels, wavIn.bitsPerSample))
  /\ UNCHANGED <<wavIn, uiVars>>

NextWav == EncodeWav

SpecWav == InitWav /\ [][NextWav]_vars

\* ======================================================= checked properties
IsBlank(s) == \A i \in 1..Len(s) : s[i] = " "

IsPrefix(s, t) == Len(s) <= Len(t) /\ \A i \in 1..Len(s) : s[i] = t[i]

Ready == audioURL # Null /\ error = Null
Failed == error # Null /\ audioURL = Null

\* C1: through the Generate button at most one generation is in flight: a
\* second generateSpeech call never starts before the earlier invocation
\* has run its finally block.
C1_SingleInFlight ==
  /\ Cardinality(inflight) <= 1
  /\ calls - completed <= 1

C1_Witness == Cardinality(inflight) = 1 /\ calls = 2 /\ completed = 1

\* C2: every step that leaves Loading is the completion of the handler and
\* ends in exactly one of Ready or Failed, every completion resets
\* isLoading, and once the service call has settled Loading is left.
C2_Lifecycle ==
  /\ [][ /\ (isLoading /\ ~isLoading') =>
              (completed' = completed + 1 /\ (Ready' # Failed'))
         /\ (completed' # completed) => (isLoading /\ ~isLoading')
         /\ (~isLoading /\ isLoading') => (calls' = calls + 1) ]_vars
  /\ ((\E r \in inflight : r.settled) ~> ~isLoading)

C2_Witness == completed = 2 /\ ~isLoading /\ Ready /\ lastRun.failedAt = Null

\* C3: createObjectURL is called only when every object URL created before
\* has been revoked, and at most one created URL is unrevoked.
C3_RevokeBeforeCreate ==
  [][ /\ (created' # created) => (created \subseteq revoked)
      /\ Cardinality(created' \ revoked') <= 1 ]_vars

C3_Witness ==
  Cardinality(created) = 2 /\ Cardinality(revoked) = 1 /\ audioURL # Null

\* C4: a generation that fails at any step ends with error set to a message
\* starting with 'Failed to generate speech: ', audioURL null, isLoading
\* false, the button enabled for non-blank text, and no further
\* generateSpeech call made by the handler.
C4_FailureRecoverable ==
  [][ (completed' # completed /\ lastRun'.failedAt # Null) =>
        /\ error' # Null
        /\ Len(error'[1]) = 2
        /\ error'[1][1] = FailedPrefix
        /\ audioURL' = Null
        /\ ~isLoading'
        /\ (~IsBlank(text') => ~ButtonDisabled')
        /\ calls' = calls
        /\ inflight' = {} ]_vars

C4_Witness ==
  /\ lastRun.failedAt = Some("decode")
  /\ error = Some(<<FailedPrefix, "DecodeError">>)
  /\ ~isLoading
  /\ ~ButtonDisabled

\* C5: when the service resolves with an empty or missing value the
\* generation fails with the empty-audio message, and decode, pcmToWavBlob
\* and createObjectURL are not called; no audio player is shown.
C5_EmptyAudioIsError ==
  [][ (completed' # completed /\ lastRun'.result.kind = "resolve"
         /\ (lastRun'.result.value = Null \/ lastRun'.result.value = Some(<<>>))) =>
        /\ lastRun'.log = <<"generateSpeech">>
        /\ error' = Some(<<FailedPrefix, EmptyAudioMsg>>)
        /\ ~isLoading'
        /\ audioURL' = Null
        /\ created' = created ]_vars

C5_Witness ==
  /\ lastRun.result = ResolveWith(Some(<<>>))
  /\ error = Some(<<FailedPrefix, EmptyAudioMsg>>)
  /\ audioURL = Null
  /\ ~isLoading

\* C6: the steps of a generation run in the order generateSpeech, decode,
\* pcmToWavBlob, createObjectURL, setAudioURL, each on the output of the
\* previous one, and no step runs after a step that failed.
PipelineOK(run) ==
  /\ IsPrefix(run.log, PipelineOrder)
  /\ run.failedAt # Null => run.log[Len(run.log)] = run.failedAt[1]
  /\ run.failedAt = Null => run.log = PipelineOrder
  /\ Len(run.log) >= 2 =>
       /\ run.result.kind = "resolve"
       /\ run.base64Audio = run.result.value
  /\ Len(run.log) >= 3 =>
       /\ run.pcmData # Null
       /\ run.pcmData = decode(run.base64Audio[1]).val
  /\ Len(run.log) >= 4 =>
       /\ run.wavBlob # Null
       /\ run.wavBlob[1] = WavHeader(Len(run.pcmData[1]), 24000, 1, 16)
                             \o run.pcmData[1]
  /\ Len(run.log) >= 5 => run.url # Null

C6_PipelineOrder ==
  [][ (completed' # completed) =>
        /\ PipelineOK(lastRun')
        /\ (Len(lastRun'.log) = 5) => (audioURL' = lastRun'.url)
        /\ (Len(lastRun'.log) < 5) => (audioURL' = audioURL) ]_vars

C6_Witness ==
  /\ lastRun.log = PipelineOrder
  /\ lastRun.pcmData = Some(<<1, 2, 3, 4>>)
  /\ audioURL = lastRun.url

\* C7: for valid format parameters the encoder returns 44 + length(B)
\* bytes: a 44-byte header followed by B unchanged.
C7_WavLength ==
  (wavOut # Null /\ wavIn.sampleRate > 0 /\ wavIn.numChannels > 0
     /\ wavIn.bitsPerSample > 0 /\ wavIn.bitsPerSample % 8 = 0) =>
    /\ wavOut[1].ok
    /\ Len(wavOut[1].val[1]) = 44 + Len(wavIn.data)
    /\ SubSeq(wavOut[1].val[1], 45, Len(wavOut[1].val[1])) = wavIn.data

C7_Witness ==
  /\ wavOut # Null
  /\ wavIn.sampleRate = 24000 /\ wavIn.numChannels = 1
  /\ wavIn.bitsPerSample = 16
  /\ wavIn.data = <<1, 255>>
  /\ Len(wavOut[1].val[1]) = 46

\* C8: with the handler triggered only through the Generate button, error
\* and audioURL are never both non-null.
C8_NotBannerAndPlayer == ~(error # Null /\ audioURL # Null)

C8_Witness ==
  /\ audioURL # Null /\ error = Null
  /\ completed = 2 /\ Cardinality(created) = 1

\* C9: while isLoading is true, error and audioURL are null and the textarea
\* is disabled; the text given to generateSpeech is the text in state
\* when the generation completes.
C9_LoadingClearsResult ==
  [][ /\ isLoading' =>
           /\ error' = Null
           /\ audioURL' = Null
           /\ inflight' # {}
           /\ \A r \in inflight' : r.text = text'
      /\ (isLoading /\ text' # text) => FALSE
      /\ (completed' # completed) =>
           \A r \in inflight \ inflight' : r.text = text' ]_vars

C9_Witness ==
  /\ isLoading /\ error = Null /\ audioURL = Null
  /\ completed = 2 /\ Cardinality(created) = 1
  /\ lastRun.failedAt # Null

\* C10: handleGenerateSpeech invoked with empty or whitespace-only text sets
\* error to the blank-text message and changes nothing else.
C10_BlankTextFrame ==
  [][ (invocations' # invocations /\ IsBlank(text)) =>
        /\ error' = Some(<<"Please enter some text to generate speech.">>)
        /\ isLoading' = isLoading
        /\ audioURL' = audioURL
        /\ revoked' = revoked
        /\ calls' = calls
        /\ inflight' = inflight
        /\ text' = text ]_vars

C10_Witness ==
  /\ text = <<" ", " ">>
  /\ error = Some(BlankTextMsg)
  /\ audioURL # Null
  /\ ~isLoading

====
